---- MODULE Spec2Model ----
(***************************************************************************)
(* Model of app/capital_client.py: the Capital.com session (TOKENS,        *)
(* LAST_AUTH) and the operations that use it.  Several callers run the     *)
(* module's functions at once; one step of a caller is one statement of    *)
(* the source (a blocking HTTP call is two steps: request sent, response   *)
(* received).  Spec is that machine.                                       *)
(*                                                                         *)
(* SpecPure applies the functions that touch no session state, each to     *)
(* every input of a bounded set: the account selection of                  *)
(* capital_client.py, the body extraction, alias resolution and webhook    *)
(* of app/main.py, and the TradingViewAlert of app/schemas.py.             *)
(***************************************************************************)
EXTENDS Integers, Sequences, FiniteSets, TLC

\* ---------------------------------------------------------------- bounds
StartTime == 1000       \* time.time() when the process starts
MaxTime == 1420         \* the clock stops advancing here
MaxAccounts == 3        \* longest account list given to the account selection
MaxBody == 4            \* longest request body, in characters

\* ------------------------------------------------------- program constants
FRESH_WINDOW == 420     \* login: time.time() - LAST_AUTH < 420
None == 0               \* an absent token (TOKENS starts with None twice)

Threads == {1, 2}       \* concurrent callers
TickSteps == {419, 420}
Statuses == {"2xx", "non2xx", "transport"}
NoRef == "None"         \* r.json().get("dealReference") found no key
DealRefs == {NoRef, "", "D1"}
TokenOps == {"ping", "market_details", "place_market_position",
             "close_position", "get_accounts",
             "pick_available_account_available"}

\* account lists the broker may return: sequences of [preferred, available]
AccountLists ==
    { <<>>,
      << [preferred |-> FALSE, available |-> 500],
         [preferred |-> TRUE,  available |-> 900] >>,
      << [preferred |-> FALSE, available |-> 500],
         [preferred |-> FALSE, available |-> 900] >>,
      << [preferred |-> TRUE,  available |-> 500],
         [preferred |-> TRUE,  available |-> 900] >> }

VARIABLES
    TOKENS,       \* [CST, XST]: the two security tokens, None when absent
    LAST_AUTH,    \* time of the last stored login response, 0.0 at start
    ACCOUNT_ID,   \* TRUE iff CAPITAL_ACCOUNT_ID is configured
    now,          \* time.time()
    th,           \* per caller: position and locals
    wh            \* app/main.py and app/schemas.py: the call under way and its result

vars == <<TOKENS, LAST_AUTH, ACCOUNT_ID, now, th, wh>>

NoRes == [st |-> "none", err |-> "", src |-> "", val |-> <<>>]
Ok(src, val) == [st |-> "ok", err |-> "", src |-> src, val |-> val]
Raise(err) == [st |-> "raise", err |-> err, src |-> "", val |-> <<>>]

\* rc, rx: the CST and X-SECURITY-TOKEN headers of the login response r;
\* status: how the last request of the call was answered
Idle == [pc |-> "idle", op |-> "", force |-> FALSE,
         rc |-> None, rx |-> None, r |-> NoRef, confirm_ref |-> NoRef,
         status |-> "", sent |-> <<>>, res |-> NoRes]

\* no call of app/main.py or app/schemas.py is under way
NoCall == [fn |-> "none"]

Init ==
    /\ TOKENS = [CST |-> None, XST |-> None]
    /\ LAST_AUTH = 0
    /\ ACCOUNT_ID \in BOOLEAN
    /\ now = StartTime
    /\ th = [t \in Threads |-> Idle]
    /\ wh = NoCall

\* a caller returns or raises: its locals die; the operation, the requests it
\* sent, the deal reference and the last status it was answered and its result
\* stay visible until its next call
Return(t, s, result) ==
    th' = [th EXCEPT ![t] = [Idle EXCEPT !.op = s.op, !.sent = s.sent,
                                         !.r = s.r, !.status = s.status,
                                         !.res = result]]

Goto(t, s, label) ==
    th' = [th EXCEPT ![t] = [s EXCEPT !.pc = label]]

Authenticated == TOKENS.CST # None /\ TOKENS.XST # None

\* the request an operation sends next, from the operation and what it sent so far
NextKind(s) ==
    CASE s.op = "login" -> "switch"
      [] s.op = "ping" -> "ping"
      [] s.op = "market_details" -> "market"
      [] s.op = "place_market_position" ->
            IF s.sent = <<>> THEN "submit" ELSE "confirm"
      [] s.op = "close_position" -> "close"
      [] OTHER -> "accounts"

\* mutant: the check looks at the first token only
AuthCheckFails_cst_only(tokens) == tokens.CST = None

\* _auth_headers, line 20-21: the check
AuthCheckFails(tokens) == tokens.CST = None \/ tokens.XST = None

\* _auth_headers, line 22-25: the returned pair
AuthHeaders(tokens) == <<tokens.CST, tokens.XST>>

\* httpx refuses a header whose value is None (it raises while it encodes the
\* headers, TypeError or AttributeError by version): no request leaves the client
HeaderEncodable(hdr) == hdr[1] # None /\ hdr[2] # None

\* the check of _auth_headers, reached from a statement of caller t in state s
auth_check(t, s) ==
    IF AuthCheckFails(TOKENS)
    THEN Return(t, s, Raise("RuntimeError"))
    ELSE Goto(t, s, "ah_ret")

Failure(status) == IF status = "non2xx" THEN "HTTPStatusError" ELSE "TransportError"

\* caller t has its request answered with status
Answered(t, status) == [th[t] EXCEPT !.status = status]

\* the broker issues a pair of tokens no one holds: tokens are opaque, only
\* their equality matters, so the least number not held anywhere is taken
TokensHeld ==
    {TOKENS.CST, TOKENS.XST}
        \cup {th[t].rc : t \in Threads} \cup {th[t].rx : t \in Threads}
        \cup UNION {{th[t].res.val[i] : i \in DOMAIN th[t].res.val} :
                       t \in {u \in Threads : th[u].op = "_auth_headers"}}

FreshToken == CHOOSE n \in 1..(Cardinality(TokensHeld) + 1) :
                 n \notin TokensHeld /\ \A m \in 1..(n - 1) : m \in TokensHeld

\* ---------------------------------------------------------------- login
\* login(force), line 29-38: the freshness gate, then the login request
\* mutant: the window is closed at its end (<= 420)
LoginGate_inclusive(force, lastAuth, clock) == ~force /\ clock - lastAuth <= FRESH_WINDOW

\* mutant: no freshness gate, every call logs in
LoginGate_absent(force, lastAuth, clock) == FALSE

LoginGate(force, lastAuth, clock) == ~force /\ clock - lastAuth < FRESH_WINDOW

login(t, force) ==
    /\ th[t].pc = "idle"
    /\ LET s == [Idle EXCEPT !.op = "login", !.force = force] IN
       IF LoginGate(force, LAST_AUTH, now)
       THEN Return(t, s, Ok("early", <<>>))
       ELSE th' = [th EXCEPT ![t] = [s EXCEPT !.pc = "login_wait",
                                               !.sent = <<"login">>]]
    /\ UNCHANGED <<TOKENS, LAST_AUTH, ACCOUNT_ID, now, wh>>

\* mutant: a refused login drops the stored tokens
login_response_drops_tokens(t, status, hasCST, hasXST) ==
    /\ th[t].pc = "login_wait"
    /\ IF status # "2xx"
       THEN /\ Return(t, Answered(t, status), Raise(Failure(status)))
            /\ TOKENS' = [CST |-> None, XST |-> None]
       ELSE /\ th' = [th EXCEPT ![t] =
                     [Answered(t, status) EXCEPT !.pc = "l40", !.force = FALSE,
                                   !.rc = IF hasCST THEN FreshToken ELSE None,
                                   !.rx = IF hasXST THEN FreshToken ELSE None]]
            /\ UNCHANGED TOKENS
    /\ UNCHANGED <<LAST_AUTH, ACCOUNT_ID, now, wh>>

\* line 38-39: the response of POST /api/v1/session; raise_for_status
login_response(t, status, hasCST, hasXST) ==
    /\ th[t].pc = "login_wait"
    /\ IF status # "2xx"
       THEN Return(t, Answered(t, status), Raise(Failure(status)))
       ELSE th' = [th EXCEPT ![t] =
                     [Answered(t, status) EXCEPT !.pc = "l40", !.force = FALSE,
                                   !.rc = IF hasCST THEN FreshToken ELSE None,
                                   !.rx = IF hasXST THEN FreshToken ELSE None]]
    /\ UNCHANGED <<TOKENS, LAST_AUTH, ACCOUNT_ID, now, wh>>

\* line 40: TOKENS["CST"] = r.headers.get("CST")
login_l40(t) ==
    /\ th[t].pc = "l40"
    /\ TOKENS' = [TOKENS EXCEPT !.CST = th[t].rc]
    /\ Goto(t, th[t], "l41")
    /\ UNCHANGED <<LAST_AUTH, ACCOUNT_ID, now, wh>>

\* line 41: TOKENS["X-SECURITY-TOKEN"] = r.headers.get("X-SECURITY-TOKEN")
login_l41(t) ==
    /\ th[t].pc = "l41"
    /\ TOKENS' = [TOKENS EXCEPT !.XST = th[t].rx]
    /\ Goto(t, th[t], "l42")
    /\ UNCHANGED <<LAST_AUTH, ACCOUNT_ID, now, wh>>

\* line 42-45: LAST_AUTH = time.time(); if ACCOUNT_ID: ...
login_l42(t) ==
    /\ th[t].pc = "l42"
    /\ LAST_AUTH' = now
    /\ IF ACCOUNT_ID
       THEN Goto(t, th[t], "ah_check")
       ELSE Return(t, th[t], Ok("login", <<>>))
    /\ UNCHANGED <<TOKENS, ACCOUNT_ID, now, wh>>

\* line 46: the response of PUT /api/v1/session; its status is not looked at
switch_response(t, status) ==
    /\ th[t].pc = "wait"
    /\ th[t].op = "login"
    /\ IF status = "transport"
       THEN Return(t, Answered(t, status), Raise("TransportError"))
       ELSE Return(t, Answered(t, status), Ok("login", <<>>))
    /\ UNCHANGED <<TOKENS, LAST_AUTH, ACCOUNT_ID, now, wh>>

\* ------------------------------------------------------- token-bearing calls
\* a direct call of _auth_headers(): line 20
auth_headers(t) ==
    /\ th[t].pc = "idle"
    /\ auth_check(t, [Idle EXCEPT !.op = "_auth_headers"])
    /\ UNCHANGED <<TOKENS, LAST_AUTH, ACCOUNT_ID, now, wh>>

\* ping, market_details, place_market_position, close_position, get_accounts,
\* pick_available_account_available: up to the check of their first _auth_headers()
begin(t, op) ==
    /\ th[t].pc = "idle"
    /\ auth_check(t, [Idle EXCEPT !.op = op])
    /\ UNCHANGED <<TOKENS, LAST_AUTH, ACCOUNT_ID, now, wh>>

\* line 46 and line 84: the check of a later _auth_headers()
auth_headers_check(t) ==
    /\ th[t].pc = "ah_check"
    /\ auth_check(t, th[t])
    /\ UNCHANGED <<TOKENS, LAST_AUTH, ACCOUNT_ID, now, wh>>

\* _auth_headers line 22-25, then the caller's client.get/post/put/delete
auth_headers_return(t) ==
    /\ th[t].pc = "ah_ret"
    /\ LET hdr == AuthHeaders(TOKENS)
           s == th[t] IN
       IF th[t].op = "_auth_headers"
       THEN Return(t, s, Ok("headers", hdr))
       ELSE IF HeaderEncodable(hdr)
            THEN th' = [th EXCEPT ![t] = [s EXCEPT !.pc = "wait",
                        !.sent = Append(s.sent, NextKind(s))]]
            ELSE Return(t, s, Raise("TypeError"))
    /\ UNCHANGED <<TOKENS, LAST_AUTH, ACCOUNT_ID, now, wh>>

\* mutant: a refused request drops the stored tokens
simple_response_drops_tokens(t, status) ==
    /\ th[t].pc = "wait"
    /\ th[t].op \in {"ping", "market_details", "close_position"}
    /\ IF status # "2xx"
       THEN /\ Return(t, Answered(t, status), Raise(Failure(status)))
            /\ TOKENS' = [CST |-> None, XST |-> None]
       ELSE /\ Return(t, Answered(t, status), Ok(NextKind(th[t]), <<>>))
            /\ UNCHANGED TOKENS
    /\ UNCHANGED <<LAST_AUTH, ACCOUNT_ID, now, wh>>

\* ping / market_details / close_position: r.raise_for_status(); return
simple_response(t, status) ==
    /\ th[t].pc = "wait"
    /\ th[t].op \in {"ping", "market_details", "close_position"}
    /\ IF status # "2xx"
       THEN Return(t, Answered(t, status), Raise(Failure(status)))
       ELSE Return(t, Answered(t, status), Ok(NextKind(th[t]), <<>>))
    /\ UNCHANGED <<TOKENS, LAST_AUTH, ACCOUNT_ID, now, wh>>

\* mutant: "if confirm_ref is not None"
Truthy_not_none(ref) == ref # NoRef

\* line 83: "if confirm_ref:"
Truthy(ref) == ref # NoRef /\ ref # ""

\* place_market_position line 78-83 and 87: the response of POST /positions
submit_response(t, status, ref) ==
    /\ th[t].pc = "wait"
    /\ th[t].op = "place_market_position"
    /\ Len(th[t].sent) = 1
    /\ IF status # "2xx"
       THEN Return(t, Answered(t, status), Raise(Failure(status)))
       ELSE LET s == [Answered(t, status) EXCEPT !.r = ref, !.confirm_ref = ref] IN
            IF Truthy(s.confirm_ref)
            THEN Goto(t, s, "ah_check")
            ELSE Return(t, s, Ok("submission", <<>>))
    /\ UNCHANGED <<TOKENS, LAST_AUTH, ACCOUNT_ID, now, wh>>

\* mutant: the confirmation is asked at a path that does not name the deal
ConfirmUrl_no_ref(confirm_ref) == <<"/api/v1/confirms/", NoRef>>

\* line 84: f"/api/v1/confirms/{confirm_ref}"
ConfirmUrl(confirm_ref) == <<"/api/v1/confirms/", confirm_ref>>

\* line 85: c.raise_for_status() raises httpx.HTTPStatusError, whose message and
\* request name the URL that was asked
RaiseForStatus(url) == [Raise("HTTPStatusError") EXCEPT !.val = url]

\* line 84-86: the response of GET /confirms/{confirm_ref}
confirm_response(t, status) ==
    /\ th[t].pc = "wait"
    /\ th[t].op = "place_market_position"
    /\ Len(th[t].sent) = 2
    /\ IF status = "non2xx"
       THEN Return(t, Answered(t, status), RaiseForStatus(ConfirmUrl(th[t].confirm_ref)))
       ELSE IF status = "transport"
       THEN Return(t, Answered(t, status), Raise(Failure(status)))
       ELSE Return(t, Answered(t, status), Ok("confirm", <<>>))
    /\ UNCHANGED <<TOKENS, LAST_AUTH, ACCOUNT_ID, now, wh>>

\* pick_available_account_available line 109-114 on data["accounts"]
RECURSIVE FirstPreferred(_, _)
FirstPreferred(accounts, i) ==
    IF i > Len(accounts) THEN 0
    ELSE IF accounts[i].preferred THEN i
    ELSE FirstPreferred(accounts, i + 1)

\* mutant: the preferred flag is not looked at
Pick_ignores_preferred(accounts) ==
    IF accounts # <<>> THEN Ok("first", <<accounts[1].available>>)
    ELSE Raise("RuntimeError")

Pick(accounts) ==
    LET i == FirstPreferred(accounts, 1) IN
    IF i # 0 THEN Ok("preferred", <<accounts[i].available>>)
    ELSE IF accounts # <<>> THEN Ok("first", <<accounts[1].available>>)
    ELSE Raise("RuntimeError")

\* line 108: data.get("accounts", []) on the JSON body of get_accounts
PickData(data) == Pick(IF data.has THEN data.accounts ELSE <<>>)

\* get_accounts line 102-104, and the selection of its caller
accounts_response(t, status, accounts) ==
    /\ th[t].pc = "wait"
    /\ th[t].op \in {"get_accounts", "pick_available_account_available"}
    /\ IF status # "2xx"
       THEN Return(t, Answered(t, status), Raise(Failure(status)))
       ELSE IF th[t].op = "get_accounts"
            THEN Return(t, Answered(t, status), Ok("accounts", <<Len(accounts)>>))
            ELSE Return(t, Answered(t, status), Pick(accounts))
    /\ UNCHANGED <<TOKENS, LAST_AUTH, ACCOUNT_ID, now, wh>>

\* time passes
Tick(d) ==
    /\ now + d <= MaxTime
    /\ now' = now + d
    /\ UNCHANGED <<TOKENS, LAST_AUTH, ACCOUNT_ID, th, wh>>

Next ==
    \/ \E t \in Threads, force \in BOOLEAN : login(t, force)
    \/ \E t \in Threads, s \in Statuses, c \in BOOLEAN, x \in BOOLEAN :
          login_response(t, s, c, x)
    \/ \E t \in Threads : login_l40(t)
    \/ \E t \in Threads : login_l41(t)
    \/ \E t \in Threads : login_l42(t)
    \/ \E t \in Threads, s \in Statuses : switch_response(t, s)
    \/ \E t \in Threads : auth_headers(t)
    \/ \E t \in Threads, op \in TokenOps : begin(t, op)
    \/ \E t \in Threads : auth_headers_check(t)
    \/ \E t \in Threads : auth_headers_return(t)
    \/ \E t \in Threads, s \in Statuses : simple_response(t, s)
    \/ \E t \in Threads, s \in Statuses, ref \in DealRefs : submit_response(t, s, ref)
    \/ \E t \in Threads, s \in Statuses : confirm_response(t, s)
    \/ \E t \in Threads, s \in Statuses, a \in AccountLists : accounts_response(t, s, a)
    \/ \E d \in TickSteps : Tick(d)

Spec == Init /\ [][Next]_vars

\* ------------------------------------------------------------------------
\* The functions that touch no session state, each applied once to an input
\* drawn from a bounded set: wh is the call, its argument and its result.

\* account i of a list has 400*i + 100 available, so the value names the account
AccountsOf(flags) ==
    [i \in DOMAIN flags |-> [preferred |-> flags[i], available |-> 400 * i + 100]]

\* the bodies of GET /api/v1/accounts: no "accounts" key, or a list of accounts
AccountData ==
    {[has |-> FALSE, accounts |-> <<>>]} \cup
    { [has |-> TRUE, accounts |-> AccountsOf(flags)] :
        flags \in UNION { [1..n -> BOOLEAN] : n \in 0..MaxAccounts } }

\* d: the argument as the call leaves it (a dict is changed in place)
Call(fn, arg) == [fn |-> fn, pc |-> "call", arg |-> arg, d |-> arg, out |-> NoRes]
Done(out) == wh' = [wh EXCEPT !.pc = "done", !.out = out]
Called(fn) == wh.fn = fn /\ wh.pc = "done"

\* ---- Python values: a type and, for str and numbers, the characters written
PyNone == [ty |-> "None", s |-> <<>>]
Str(s) == [ty |-> "str", s |-> s]
Float(s) == [ty |-> "float", s |-> s]
Absent == [ty |-> "absent", s |-> <<>>]    \* the key is not in the dict

\* bool(v) of None, a str or a number other than zero
PyTruthy(v) == v.ty # "None" /\ v.s # <<>>

UPPER == <<"A", "B", "C", "D", "E", "F", "G", "H", "I", "J", "K", "L", "M",
           "N", "O", "P", "Q", "R", "S", "T", "U", "V", "W", "X", "Y", "Z">>
LOWER == <<"a", "b", "c", "d", "e", "f", "g", "h", "i", "j", "k", "l", "m",
           "n", "o", "p", "q", "r", "s", "t", "u", "v", "w", "x", "y", "z">>

\* str.lower()
Lower(s) ==
    [i \in DOMAIN s |->
        IF \E n \in DOMAIN UPPER : UPPER[n] = s[i]
        THEN LOWER[CHOOSE n \in DOMAIN UPPER : UPPER[n] = s[i]]
        ELSE s[i]]

Digits == {"0", "1", "2", "3", "4", "5", "6", "7", "8", "9"}
AllDigits(s) == s # <<>> /\ \A i \in DOMAIN s : s[i] \in Digits

\* main.py line 63: re.match(r"^-?\d+(\.\d+)?$", v)
IsNumeric(v) ==
    LET u == IF v # <<>> /\ v[1] = "-" THEN Tail(v) ELSE v IN
    \/ AllDigits(u)
    \/ \E k \in DOMAIN u :
          /\ u[k] = "."
          /\ AllDigits(SubSeq(u, 1, k - 1))
          /\ AllDigits(SubSeq(u, k + 1, Len(u)))

\* ---- request bodies: texts over the characters that JSON and the key/value
\* lines are made of (no letter here begins a JSON literal)
Chars == {"{", "}", ":", "=", " ", "\n", "\"", "a", "1", "."}
Bodies == UNION { [1..n -> Chars] : n \in 0..MaxBody }

\* a dict value: s maps each key to its value
DictOf(f) == [ty |-> "dict", s |-> f]
PyInt(s) == [ty |-> "int", s |-> s]
Put(f, k, v) == (k :> v) @@ f      \* f[k] = v

\* ---- json.loads (main.py line 84)
NoParse == [ok |-> FALSE, v |-> PyNone, i |-> 0]
Parsed(v, i) == [ok |-> TRUE, v |-> v, i |-> i]

At(s, i) == IF i \in DOMAIN s THEN s[i] ELSE "EOF"

RECURSIVE SkipWs(_, _)
SkipWs(s, i) == IF At(s, i) \in {" ", "\n"} THEN SkipWs(s, i + 1) ELSE i

RECURSIVE SkipDigits(_, _)
SkipDigits(s, i) == IF At(s, i) \in Digits THEN SkipDigits(s, i + 1) ELSE i

\* a string: up to the next quote, with no control character inside
ParseString(s, i) ==
    IF At(s, i) # "\"" THEN NoParse
    ELSE LET closing == {j \in DOMAIN s : j > i /\ s[j] = "\""} IN
         IF closing = {} THEN NoParse
         ELSE LET j == CHOOSE j \in closing : \A k \in closing : j <= k IN
              IF \E k \in (i + 1)..(j - 1) : s[k] = "\n" THEN NoParse
              ELSE Parsed(Str(SubSeq(s, i + 1, j - 1)), j + 1)

\* a number: -?(0|[1-9]\d*)(\.\d+)?
ParseNumber(s, i) ==
    LET d == IF At(s, i) = "-" THEN i + 1 ELSE i
        e == IF At(s, d) = "0" THEN d + 1 ELSE SkipDigits(s, d)
        f == IF At(s, e) = "." /\ At(s, e + 1) \in Digits
             THEN SkipDigits(s, e + 1) ELSE e
    IN  IF e = d THEN NoParse
        ELSE IF f > e THEN Parsed(Float(SubSeq(s, i, f - 1)), f)
        ELSE Parsed(PyInt(SubSeq(s, i, e - 1)), e)

RECURSIVE ParseValue(_, _)
RECURSIVE ParseMembers(_, _, _)

\* the members of an object from its first key on
ParseMembers(s, i, acc) ==
    LET key == ParseString(s, i) IN
    IF ~key.ok THEN NoParse
    ELSE LET colon == SkipWs(s, key.i) IN
         IF At(s, colon) # ":" THEN NoParse
         ELSE LET value == ParseValue(s, SkipWs(s, colon + 1)) IN
              IF ~value.ok THEN NoParse
              ELSE LET more == SkipWs(s, value.i)
                       dict == Put(acc, key.v.s, value.v)
                   IN  IF At(s, more) = "}" THEN Parsed(DictOf(dict), more + 1)
                       ELSE IF At(s, more) = ","
                            THEN ParseMembers(s, SkipWs(s, more + 1), dict)
                       ELSE NoParse

ParseValue(s, i) ==
    IF At(s, i) = "\"" THEN ParseString(s, i)
    ELSE IF At(s, i) = "{"
         THEN LET first == SkipWs(s, i + 1) IN
              IF At(s, first) = "}" THEN Parsed(DictOf(<<>>), first + 1)
              ELSE ParseMembers(s, first, <<>>)
    ELSE ParseNumber(s, i)

\* one JSON value, white space around it, and nothing else
json_loads(s) ==
    LET value == ParseValue(s, SkipWs(s, 1)) IN
    IF value.ok /\ SkipWs(s, value.i) = Len(s) + 1 THEN value ELSE NoParse

\* ---- _parse_text_body_to_dict (main.py line 43-68)
KeyChars == {UPPER[n] : n \in DOMAIN UPPER} \cup {LOWER[n] : n \in DOMAIN LOWER}
               \cup Digits \cup {"_", "-", "."}

RECURSIVE SkipSpaces(_, _)
SkipSpaces(s, i) == IF At(s, i) = " " THEN SkipSpaces(s, i + 1) ELSE i

RECURSIVE SkipKey(_, _)
SkipKey(s, i) == IF At(s, i) \in KeyChars THEN SkipKey(s, i + 1) ELSE i

RECURSIVE LastNonSpace(_, _)
LastNonSpace(s, i) == IF i > 0 /\ s[i] = " " THEN LastNonSpace(s, i - 1) ELSE i

\* line 57: re.match(r"\s*([A-Za-z0-9_\-\.]+)\s*[:=]\s*(.+?)\s*$", line): the key
\* and the value of a line, the value without the spaces around it (a value
\* of spaces only is its last space)
MatchLine(line) ==
    LET k1 == SkipSpaces(line, 1)
        k2 == SkipKey(line, k1)
        sep == SkipSpaces(line, k2)
        v1 == SkipSpaces(line, sep + 1)
        v2 == LastNonSpace(line, Len(line))
    IN  IF k2 = k1 \/ At(line, sep) \notin {":", "="} \/ sep = Len(line)
        THEN [ok |-> FALSE, k |-> <<>>, v |-> <<>>]
        ELSE [ok |-> TRUE, k |-> SubSeq(line, k1, k2 - 1),
              v |-> IF v1 > Len(line) THEN <<line[Len(line)]>>
                    ELSE SubSeq(line, v1, v2)]

\* line 56-67 from character i on, data being the dict so far
RECURSIVE ParseLines(_, _, _)
ParseLines(text, i, data) ==
    IF i > Len(text) THEN data
    ELSE LET ends == {j \in i..Len(text) : text[j] = "\n"}
             end == IF ends = {} THEN Len(text) + 1
                    ELSE CHOOSE j \in ends : \A k \in ends : j <= k
             m == MatchLine(SubSeq(text, i, end - 1))
         IN  ParseLines(text, end + 1,
                        IF m.ok
                        THEN Put(data, m.k, IF IsNumeric(m.v) THEN Float(m.v) ELSE Str(m.v))
                        ELSE data)

parse_text_body_to_dict(text) == ParseLines(text, 1, <<>>)

\* _extract_payload line 83-94 on the decoded body
ExtractPayload(raw_str) ==
    LET json == json_loads(raw_str)
        kv == parse_text_body_to_dict(raw_str)
    IN  IF json.ok THEN json.v
        ELSE IF DOMAIN kv # {} THEN DictOf(kv)
        ELSE DictOf(Put(<<>>, <<"r", "a", "w">>, Str(raw_str)))

\* ---- the payloads given to _validate_alert_dict and to webhook
AAPL == <<"A", "A", "P", "L">>
buy == <<"b", "u", "y">>
sell == <<"s", "e", "l", "l">>
SELL == <<"S", "E", "L", "L">>
hold == <<"h", "o", "l", "d">>
One == <<"1">>

SymbolValues == {Absent, PyNone, Str(<<>>), Str(AAPL)}
TickerValues == {Absent, PyNone, Str(<<>>), Str(<<"T">>)}
ActionValues == {Absent, PyNone, Str(<<>>), Str(buy), Str(hold)}
SideValues == {Absent, PyNone, Str(SELL), Str(hold)}
PriceValues == {Absent, Float(One), Str(<<"x">>)}
CloseValues == {Absent, Float(<<"2">>)}
QtyValues == {Absent, Float(One)}
QuantityValues == {Absent, Float(<<"2">>)}

\* the dict holding the keys that are not Absent
Dict(f) == [k \in {k \in DOMAIN f : f[k] # Absent} |-> f[k]]

Payloads ==
    { Dict([symbol |-> sy, ticker |-> ti, action |-> ac, side |-> si,
            price |-> pr, close |-> cl, qty |-> q, quantity |-> qu]) :
        sy \in SymbolValues, ti \in TickerValues,
        ac \in ActionValues, si \in SideValues,
        pr \in PriceValues, cl \in CloseValues,
        q \in QtyValues, qu \in QuantityValues }

\* ---- main.py
\* mutant: the alias overwrites the canonical name
Fill_overwrites(d, alias, canonical) ==
    IF alias \in DOMAIN d
    THEN [k \in DOMAIN d \cup {canonical} |-> IF k = canonical THEN d[alias] ELSE d[k]]
    ELSE d

\* _validate_alert_dict line 103-110, one of the four: if alias in d and
\* canonical not in d: d[canonical] = d[alias]
Fill(d, alias, canonical) ==
    IF alias \in DOMAIN d /\ canonical \notin DOMAIN d
    THEN [k \in DOMAIN d \cup {canonical} |-> IF k = canonical THEN d[alias] ELSE d[k]]
    ELSE d

\* _validate_alert_dict line 103-110
ResolveAliases(d) ==
    Fill(Fill(Fill(Fill(d, "ticker", "symbol"), "side", "action"),
              "close", "price"), "quantity", "qty")

\* pydantic reads a field by its alias, then (populate_by_name) by its name,
\* then takes the default None
FieldInput(d, name, alias) ==
    IF alias \in DOMAIN d THEN d[alias]
    ELSE IF name \in DOMAIN d THEN d[name]
    ELSE PyNone

\* Optional[str]: None or a str
ValidStr(v) == v.ty \in {"None", "str"}
\* Optional[float]: None, a number, or a str that reads as a number
ValidFloat(v) == v.ty \in {"None", "float"} \/ (v.ty = "str" /\ IsNumeric(v.s))
AsFloat(v) == IF v.ty = "str" THEN Float(v.s) ELSE v

\* class Alert line 14-31, Alert.model_validate(d) line 114
model_validate(d) ==
    LET symbol == FieldInput(d, "symbol", "ticker")
        action == FieldInput(d, "action", "side")
        price == FieldInput(d, "price", "close")
        qty == FieldInput(d, "qty", "quantity")
        comment == FieldInput(d, "comment", "comment")
    IN  IF /\ ValidStr(symbol) /\ ValidStr(action) /\ ValidStr(comment)
           /\ ValidFloat(price) /\ ValidFloat(qty)
        THEN Ok("Alert", [symbol |-> symbol, action |-> action,
                          price |-> AsFloat(price), qty |-> AsFloat(qty),
                          comment |-> comment])
        ELSE Raise("ValidationError")

\* an HTTP answer of the webhook
Response(status_code, received) ==
    [st |-> "response", status_code |-> status_code, received |-> received]

TradingKeys == {"symbol", "ticker", "action", "side", "price", "close"}

\* webhook line 126-160 on the payload that _extract_payload returned
WebhookOn(payload) ==
    IF DOMAIN payload \cap TradingKeys = {} THEN Response(400, <<>>)
    ELSE LET alert == model_validate(ResolveAliases(payload)) IN
         IF alert.st = "raise" THEN Response(400, <<>>)
         ELSE LET normalized ==
                    [symbol |-> alert.val.symbol,
                     action |-> IF PyTruthy(alert.val.action)
                                THEN Str(Lower(alert.val.action.s)) ELSE PyNone,
                     price |-> alert.val.price,
                     qty |-> alert.val.qty,
                     comment |-> alert.val.comment]
              IN  IF ~PyTruthy(normalized.symbol) THEN Response(400, <<>>)
                  ELSE IF normalized.action \notin {PyNone, Str(buy), Str(sell)}
                       THEN Response(400, <<>>)
                  ELSE Response(200, normalized)

\* ---- schemas.py
CashPctDefault == Float(<<"0", ".", "1", "0">>)
SlPctDefault == Float(<<"0", ".", "1", "0">>)

AlertFields ==
    { Dict([symbol |-> sy, side |-> si, qty |-> q, cash_pct |-> c]) :
        sy \in {Absent, PyNone, Str(AAPL)},
        si \in {Absent, Str(buy), Str(SELL), Str(hold)},
        q \in {Absent, PyNone, Float(One)},
        c \in {Absent, PyNone, Float(<<"0", ".", "5">>)} }

\* a field with a default
FieldOr(d, name, default) == IF name \in DOMAIN d THEN d[name] ELSE default

\* class TradingViewAlert line 5-21: symbol and side are required str, side is
\* lowered and must be buy or sell, the other fields are Optional with defaults
TradingViewAlertOf(d) ==
    IF /\ "symbol" \in DOMAIN d /\ d.symbol.ty = "str"
       /\ "side" \in DOMAIN d /\ d.side.ty = "str"
       /\ Lower(d.side.s) \in {buy, sell}
       /\ ValidFloat(FieldOr(d, "qty", PyNone))
       /\ ValidFloat(FieldOr(d, "cash_pct", CashPctDefault))
    THEN Ok("TradingViewAlert",
            [symbol |-> d.symbol, side |-> Str(Lower(d.side.s)),
             price |-> FieldOr(d, "price", PyNone),
             qty |-> AsFloat(FieldOr(d, "qty", PyNone)),
             cash_pct |-> AsFloat(FieldOr(d, "cash_pct", CashPctDefault)),
             sl_pct |-> AsFloat(FieldOr(d, "sl_pct", SlPctDefault)),
             take_profit |-> FieldOr(d, "take_profit", PyNone),
             secret |-> FieldOr(d, "secret", PyNone)])
    ELSE Raise("ValidationError")


SessionAtRest ==
    /\ TOKENS = [CST |-> None, XST |-> None]
    /\ LAST_AUTH = 0
    /\ ACCOUNT_ID = FALSE
    /\ now = StartTime
    /\ th = [t \in Threads |-> Idle]

InitPure ==
    /\ SessionAtRest
    /\ \/ \E data \in AccountData : wh = Call("pick_available_account_available", data)
       \/ \E raw_str \in Bodies : wh = Call("_extract_payload", raw_str)
       \/ \E d \in Payloads : wh = Call("_validate_alert_dict", d)
       \/ \E payload \in Payloads : wh = Call("webhook", payload)
       \/ \E d \in AlertFields : wh = Call("TradingViewAlert", d)

\* pick_available_account_available line 108-114, on the data of get_accounts
pick_available_account_available ==
    /\ wh.fn = "pick_available_account_available" /\ wh.pc = "call"
    /\ Done(PickData(wh.arg))
    /\ UNCHANGED <<TOKENS, LAST_AUTH, ACCOUNT_ID, now, th>>

\* _extract_payload line 75-94
extract_payload ==
    /\ wh.fn = "_extract_payload" /\ wh.pc = "call"
    /\ Done(ExtractPayload(wh.arg))
    /\ UNCHANGED <<TOKENS, LAST_AUTH, ACCOUNT_ID, now, th>>

\* _validate_alert_dict line 103-116
validate_alert_dict ==
    /\ wh.fn = "_validate_alert_dict" /\ wh.pc = "call"
    /\ wh' = [wh EXCEPT !.pc = "done", !.d = ResolveAliases(wh.arg),
                        !.out = model_validate(ResolveAliases(wh.arg))]
    /\ UNCHANGED <<TOKENS, LAST_AUTH, ACCOUNT_ID, now, th>>

\* webhook line 122-160
webhook ==
    /\ wh.fn = "webhook" /\ wh.pc = "call"
    /\ Done(WebhookOn(wh.arg))
    /\ UNCHANGED <<TOKENS, LAST_AUTH, ACCOUNT_ID, now, th>>

\* TradingViewAlert(**fields)
TradingViewAlert ==
    /\ wh.fn = "TradingViewAlert" /\ wh.pc = "call"
    /\ Done(TradingViewAlertOf(wh.arg))
    /\ UNCHANGED <<TOKENS, LAST_AUTH, ACCOUNT_ID, now, th>>

NextPure ==
    \/ pick_available_account_available
    \/ extract_payload
    \/ validate_alert_dict
    \/ webhook
    \/ TradingViewAlert

SpecPure == InitPure /\ [][NextPure]_vars

\* ------------------------------------------------------------ vocabulary
\* caller t takes a step
Steps(t) == th'[t] # th[t]

\* caller t enters operation op (its first statement runs)
Enters(t, op) == th[t].pc = "idle" /\ Steps(t) /\ th'[t].op = op

\* caller t sends a token-bearing request
SendsWithTokens(t) == th[t].pc = "ah_ret" /\ th'[t].pc = "wait"

InLogin(t) == th[t].op = "login" /\ th[t].pc # "idle"

Stale == now - LAST_AUTH >= FRESH_WINDOW

TypeOK ==
    /\ TOKENS.CST \in Nat
    /\ TOKENS.XST \in Nat
    /\ LAST_AUTH <= now

\* ------------------------------------------------------------------ claims

\* C1: LAST_AUTH is the time the last login response was stored; a
\* login(force=False) entered less than 420 seconds after it returns at once
\* and issues no login request, one entered 420 or more seconds after it
\* issues exactly one new login request.
C1_FreshnessWindow ==
    [][ /\ (LAST_AUTH' # LAST_AUTH =>
               LAST_AUTH' = now /\ \E t \in Threads : th[t].pc = "l42" /\ Steps(t))
        /\ \A t \in Threads :
             (Enters(t, "login") /\ ~th'[t].force) =>
                IF now - LAST_AUTH < 420
                THEN /\ th'[t].pc = "idle"
                     /\ th'[t].res = Ok("early", <<>>)
                     /\ th'[t].sent = <<>>
                ELSE /\ th'[t].pc = "login_wait"
                     /\ th'[t].sent = <<"login">> ]_vars

\* C1 witness: a second login request is in flight, issued by a non-forced call
\* exactly 420 seconds after the first login was stored
C1_Witness ==
    \E t \in Threads :
        /\ th[t].pc = "login_wait" /\ ~th[t].force
        /\ Authenticated /\ LAST_AUTH = StartTime /\ now - LAST_AUTH = 420

\* C2 (as claimed): a login that has returned normally leaves both tokens present
C2_ReturnedLoginIsAuthenticated ==
    \A t \in Threads :
        (th[t].pc = "idle" /\ th[t].op = "login" /\ th[t].res.st = "ok")
            => Authenticated

\* C3 (as claimed): login returns normally only if its 2xx response carried
\* both tokens
C3_MissingTokenFailsLogin ==
    [][ \A t \in Threads :
          (InLogin(t) /\ th[t].pc \in {"l42", "wait"}
             /\ th'[t].pc = "idle" /\ th'[t].res.st = "ok")
          => (th[t].rc # None /\ th[t].rx # None) ]_vars

\* C4 (as claimed): whenever no login is under way, the two tokens are both
\* present or both absent
C4_TokensBothOrNeither ==
    (\A t \in Threads : ~InLogin(t)) => (TOKENS.CST = None <=> TOKENS.XST = None)

\* C5: the check of _auth_headers raises exactly when a token is absent (so
\* always before the first login response is received), its return statement returns the
\* stored pair, and neither changes the session
C5_AuthHeaders ==
    /\ []((LAST_AUTH = 0 /\ \A t \in Threads : th[t].pc \notin {"l40", "l41", "l42"})
            => (TOKENS.CST = None /\ TOKENS.XST = None))
    /\ [][ \A t \in Threads :
             /\ (Enters(t, "_auth_headers") =>
                   /\ IF Authenticated
                      THEN th'[t].pc = "ah_ret"
                      ELSE th'[t].pc = "idle" /\ th'[t].res = Raise("RuntimeError")
                   /\ UNCHANGED <<TOKENS, LAST_AUTH>>)
             /\ (th[t].op = "_auth_headers" /\ th[t].pc = "ah_ret" /\ Steps(t) =>
                   /\ th'[t].pc = "idle"
                   /\ th'[t].res.st = "ok"
                   /\ th'[t].res.val = <<TOKENS.CST, TOKENS.XST>>
                   /\ UNCHANGED <<TOKENS, LAST_AUTH>>) ]_vars

\* C5 witness: _auth_headers has returned the stored pair of an authenticated session
C5_Witness ==
    \E t \in Threads :
        /\ th[t].op = "_auth_headers" /\ th[t].pc = "idle" /\ th[t].res.st = "ok"
        /\ Authenticated
        /\ th[t].res.val = <<TOKENS.CST, TOKENS.XST>>

\* C6: every request other than the login request is sent with the two stored
\* tokens, both present, and a token-bearing operation entered on an
\* unauthenticated session fails at once, having sent nothing
C6_NoRequestWithoutTokens ==
    [][ \A t \in Threads :
          /\ (Len(th'[t].sent) > Len(th[t].sent) /\ ~Enters(t, "login")
                 => SendsWithTokens(t) /\ Authenticated)
          /\ \A op \in TokenOps :
                (Enters(t, op) /\ ~Authenticated) =>
                   /\ th'[t].pc = "idle"
                   /\ th'[t].res.st = "raise"
                   /\ th'[t].sent = <<>> ]_vars

\* C6 witness: an operation was refused on a session holding one token only
C6_Witness ==
    \E t \in Threads :
        /\ th[t].op \in TokenOps /\ th[t].pc = "idle"
        /\ th[t].res = Raise("RuntimeError") /\ th[t].sent = <<>>
        /\ TOKENS.CST # None /\ TOKENS.XST = None

\* C7 (as claimed): no token-bearing request is sent 420 or more seconds after
\* the last authentication
C7_NoStaleTokenUse ==
    [][ \A t \in Threads : SendsWithTokens(t) => ~Stale ]_vars

\* C8: only the three storing statements of login change the tokens or the
\* timestamp; no step of any other operation does
C8_OnlyLoginMutates ==
    [][ /\ (<<TOKENS, LAST_AUTH>>' # <<TOKENS, LAST_AUTH>> =>
               \E t \in Threads :
                   InLogin(t) /\ th[t].pc \in {"l40", "l41", "l42"} /\ Steps(t))
        /\ \A t \in Threads :
              (Steps(t) /\ th'[t].op # "login") => UNCHANGED <<TOKENS, LAST_AUTH>> ]_vars

\* C8 witness: on an authenticated session one caller's request has failed and
\* the other's has succeeded
C8_Witness ==
    /\ Authenticated /\ LAST_AUTH = StartTime
    /\ \E t \in Threads :
          th[t].op \in TokenOps /\ th[t].pc = "idle" /\ th[t].res.st = "raise"
             /\ th[t].sent # <<>>
    /\ \E t \in Threads :
          th[t].op \in TokenOps /\ th[t].pc = "idle" /\ th[t].res.st = "ok"

\* C9 (as claimed): at most one login request is in flight at any time
C9_LoginSerialized ==
    Cardinality({t \in Threads : th[t].pc = "login_wait"}) <= 1

\* C9 (amended): re-authentication is time-gated per call, not serialized: a
\* login request is issued only by a call that is forced or finds the session
\* stale at its own check, and a call issues one login request at most
C9_TimeGatedLogin ==
    /\ [](\A t \in Threads :
            Cardinality({i \in DOMAIN th[t].sent : th[t].sent[i] = "login"}) <= 1)
    /\ [][ \A t \in Threads :
             th'[t].pc = "login_wait" /\ Steps(t) =>
                Enters(t, "login") /\ (th'[t].force \/ Stale) ]_vars

\* C9 witness: two non-forced calls have each issued a login request for the
\* same stale session
C9_Witness ==
    /\ \A t \in Threads : th[t].pc = "login_wait" /\ ~th[t].force
    /\ Authenticated /\ Stale

\* C10: place sends the submission first; a confirmation request is in flight
\* only for the non-empty deal reference the submission was answered; a place
\* that returns has sent submission and one confirmation and returns the
\* confirmation when the reference was non-empty, and has sent the submission
\* only and returns its response otherwise
C10_PlaceSequence ==
    \A t \in Threads :
        th[t].op = "place_market_position" =>
            /\ th[t].sent \in {<<>>, <<"submit">>, <<"submit", "confirm">>}
            /\ (th[t].pc = "wait" /\ Len(th[t].sent) = 2 =>
                   th[t].r \notin {NoRef, ""} /\ th[t].confirm_ref = th[t].r)
            /\ (th[t].pc = "idle" /\ th[t].res.st = "ok" =>
                   IF th[t].r \notin {NoRef, ""}
                   THEN th[t].sent = <<"submit", "confirm">> /\ th[t].res.src = "confirm"
                   ELSE th[t].sent = <<"submit">> /\ th[t].res.src = "submission")

\* C10 witness: a place has returned the confirmation of deal reference D1
C10_Witness ==
    \E t \in Threads :
        /\ th[t].op = "place_market_position" /\ th[t].pc = "idle"
        /\ th[t].res = Ok("confirm", <<>>) /\ th[t].r = "D1"
        /\ th[t].sent = <<"submit", "confirm">>

\* C11: a place whose submission was answered a deal reference and whose
\* confirmation lookup was answered non-2xx raises the HTTP status error of the
\* lookup, which names the confirmation URL ending in that deal reference
C11_ConfirmFailureNamesDeal ==
    \A t \in Threads :
        (th[t].op = "place_market_position" /\ th[t].pc = "idle"
           /\ Len(th[t].sent) = 2 /\ th[t].status = "non2xx")
        => /\ th[t].res.st = "raise"
           /\ th[t].res.err = "HTTPStatusError"
           /\ th[t].r \notin {NoRef, ""}
           /\ th[t].res.val = <<"/api/v1/confirms/", th[t].r>>

\* C11 witness: the confirmation lookup of deal D1 was refused
C11_Witness ==
    \E t \in Threads :
        /\ th[t].op = "place_market_position" /\ th[t].pc = "idle"
        /\ th[t].sent = <<"submit", "confirm">> /\ th[t].status = "non2xx"
        /\ th[t].r = "D1" /\ th[t].res.st = "raise"

\* C12 (as claimed): an operation whose last request was answered non-2xx has
\* raised
C12_NoErrorSwallowed ==
    \A t \in Threads :
        (th[t].pc = "idle" /\ th[t].status = "non2xx") => th[t].res.st = "raise"

\* C18 (as claimed): the account switch is sent by a login only, after its own
\* tokens were stored and carrying them; with an account id configured a login
\* whose login request was answered 2xx ends having sent exactly one switch,
\* without one it sends none, and an early return sends nothing
C18_OneSwitchWithNewTokens ==
    [][ \A t \in Threads :
          /\ (InLogin(t) /\ SendsWithTokens(t) =>
                /\ ACCOUNT_ID
                /\ th[t].sent = <<"login">>
                /\ th[t].rc # None /\ TOKENS.CST = th[t].rc
                /\ th[t].rx # None /\ TOKENS.XST = th[t].rx)
          /\ (InLogin(t) /\ th[t].pc # "login_wait" /\ th'[t].pc = "idle" =>
                IF ACCOUNT_ID
                THEN th'[t].sent = <<"login", "switch">>
                ELSE th'[t].sent = <<"login">>)
          /\ (Enters(t, "login") /\ th'[t].pc = "idle" => th'[t].sent = <<>>) ]_vars

\* C19: a login whose login request is refused or does not get through raises
\* that failure, and neither its entry nor its failure changes the tokens or
\* the timestamp
C19_FailedLoginKeepsSession ==
    [][ \A t \in Threads :
          /\ (Enters(t, "login") => UNCHANGED <<TOKENS, LAST_AUTH>>)
          /\ (th[t].pc = "login_wait" /\ Steps(t) /\ th'[t].status # "2xx" =>
                /\ th'[t].pc = "idle"
                /\ th'[t].res = Raise(Failure(th'[t].status))
                /\ th'[t].sent = <<"login">>
                /\ UNCHANGED <<TOKENS, LAST_AUTH>>) ]_vars

\* C19 witness: a re-login of a stale, authenticated session was refused; the
\* tokens are still there and the session is still stale
C19_Witness ==
    \E t \in Threads :
        /\ th[t].op = "login" /\ th[t].pc = "idle"
        /\ th[t].res = Raise("HTTPStatusError")
        /\ Authenticated /\ TOKENS.CST = TOKENS.XST
        /\ LAST_AUTH = StartTime /\ Stale

\* C20 (as claimed): _auth_headers never returns two tokens of different login
\* responses, and once no login is under way the stored tokens are of one response
C20_NoMixedPair ==
    /\ \A t \in Threads :
          (th[t].op = "_auth_headers" /\ th[t].pc = "idle" /\ th[t].res.st = "ok")
             => th[t].res.val[1] = th[t].res.val[2]
    /\ ((\A t \in Threads : ~InLogin(t)) /\ Authenticated)
          => TOKENS.CST = TOKENS.XST

\* C13: the account selection answers the available balance of the first
\* account flagged preferred; without a flagged account, of the first account;
\* and for an empty or missing list it raises RuntimeError and returns no value
C13_PickAccount ==
    Called("pick_available_account_available") =>
        LET accounts == IF wh.arg.has THEN wh.arg.accounts ELSE <<>>
            flagged == {i \in DOMAIN accounts : accounts[i].preferred}
        IN  IF flagged # {}
            THEN \E i \in flagged :
                    /\ \A j \in flagged : i <= j
                    /\ wh.out.st = "ok"
                    /\ wh.out.val = <<accounts[i].available>>
            ELSE IF accounts # <<>>
            THEN wh.out.st = "ok" /\ wh.out.val = <<accounts[1].available>>
            ELSE wh.out = Raise("RuntimeError")

\* C13 witness: of three accounts the second and third are flagged; the second
\* is used
C13_Witness ==
    /\ Called("pick_available_account_available")
    /\ wh.arg.has /\ Len(wh.arg.accounts) = 3
    /\ ~wh.arg.accounts[1].preferred
    /\ wh.arg.accounts[2].preferred /\ wh.arg.accounts[3].preferred
    /\ wh.out.val = <<900>>

\* C14 (as claimed): for every body the extraction returns a dict: what the
\* body parses to as JSON; else the key/value fields of its lines if there is
\* one; else the single field raw holding the whole text
C14_ExtractReturnsMapping ==
    Called("_extract_payload") =>
        /\ wh.out.ty = "dict"
        /\ IF json_loads(wh.arg).ok THEN wh.out = json_loads(wh.arg).v
           ELSE IF DOMAIN parse_text_body_to_dict(wh.arg) # {}
                THEN wh.out.s = parse_text_body_to_dict(wh.arg)
           ELSE /\ DOMAIN wh.out.s = {<<"r", "a", "w">>}
                /\ wh.out.s[<<"r", "a", "w">>] = Str(wh.arg)

\* C15: alias resolution returns for every dict: every key it had keeps its
\* value; the only keys added are canonical names (symbol, action, price, qty)
\* that were missing and whose alias (ticker, side, close, quantity) was there,
\* each with the value of its alias; and resolving the result again changes
\* nothing
C15_AliasesOnlyEnrich ==
    Called("_validate_alert_dict") =>
        LET Alias == [symbol |-> "ticker", action |-> "side",
                      price |-> "close", qty |-> "quantity"]
            filled == {c \in DOMAIN Alias :
                          c \notin DOMAIN wh.arg /\ Alias[c] \in DOMAIN wh.arg}
        IN  /\ \A k \in DOMAIN wh.arg : k \in DOMAIN wh.d /\ wh.d[k] = wh.arg[k]
            /\ DOMAIN wh.d = DOMAIN wh.arg \cup filled
            /\ \A c \in filled : wh.d[c] = wh.arg[Alias[c]]
            /\ ResolveAliases(wh.d) = wh.d

\* C15 witness: symbol and ticker were both given with different values and
\* side without action; symbol kept its value and action was filled from side
C15_Witness ==
    /\ Called("_validate_alert_dict")
    /\ {"symbol", "ticker", "side"} \subseteq DOMAIN wh.arg
    /\ "action" \notin DOMAIN wh.arg
    /\ wh.arg.symbol # wh.arg.ticker
    /\ wh.d.symbol = wh.arg.symbol
    /\ wh.d.action = wh.arg.side

\* C16 (as claimed): the webhook answers 200 or 400, and 200 only with a
\* non-empty symbol and an action that is buy or sell
C16_AcceptsOnlySymbolAndSide ==
    Called("webhook") =>
        /\ wh.out.status_code \in {200, 400}
        /\ wh.out.status_code = 200 =>
              /\ wh.out.received.symbol.ty = "str"
              /\ wh.out.received.symbol.s # <<>>
              /\ wh.out.received.action \in {Str(buy), Str(sell)}

\* C17 (as claimed): no constructed TradingViewAlert has both qty and cash_pct
\* None
C17_SizingInputPresent ==
    (Called("TradingViewAlert") /\ wh.out.st = "ok") =>
        ~(wh.out.val.qty = PyNone /\ wh.out.val.cash_pct = PyNone)

====
